---- MODULE Spec2Model ----
(***************************************************************************)
(* Model of the gdbt command line (src/gdbt/cli.py): the `plan` and        *)
(* `apply` commands, step by step, against the reconciliation core they    *)
(* call (resolve, State, load, StateDiff, outcomes, Plan, plan.apply,      *)
(* push).  The core modules are imported by cli.py; their behaviour is     *)
(* taken from the specification of the core.                               *)
(***************************************************************************)
EXTENDS Integers, FiniteSets, Sequences, TLC

\* ------------------------------------------------------------------ bounds
\* Number of command invocations in one behaviour.
MaxRuns == 3

\* Resource keys as they appear in the dictionaries handled by cli.py.
Ids == {1, 2}
\* Normalised resource content documents.
Contents == {"a", "b"}
\* Provider names that a configuration may declare.
Providers == {"p1", "p2"}
\* Stencils in the order load_resources returns them (dict order).
StencilKeys == <<"s1", "s2">>

\* ------------------------------------------------------------- dictionaries
EmptyDict == [i \in {} |-> "a"]

Dicts == UNION {[D -> Contents] : D \in SUBSET Ids}

Restrict(d, S) == [i \in (DOMAIN d) \cap S |-> d[i]]

\* The provider that a resource declares (part of the resource itself).
ProviderOf(id) == IF id % 2 = 1 THEN "p1" ELSE "p2"

OwnedBy(p) == {i \in Ids : ProviderOf(i) = p}

\* The configuration directories a command may be pointed at: the provider
\* set of the configuration and, per stencil, what the stencil resolves to.
ProviderSets == {{"p1"}, {"p1", "p2"}}

ConfigDirs == [providers : ProviderSets, stencils : [{"s1", "s2"} -> Dicts]]

VARIABLES
    config_dir,     \* the configuration directory on disk
    stored,         \* state blobs held by the state providers, per provider
    backend,        \* resources that actually exist in the backends
    runs,           \* number of commands invoked so far
    prev_clean,     \* last run: apply, every operation succeeded, state pushed
    start,          \* stored and backend as they were when this run began
    cmd,            \* command being run: "plan" or "apply"
    auto_approve,   \* --auto-approve flag
    pc,             \* position in the command
    config,         \* config.providers as loaded
    stencils,       \* stencils as loaded
    idx,            \* position of the resolve loop in StencilKeys
    resources,      \* dict accumulated by the resolve loop
    state_desired,
    state_current,
    state_diff,
    changes,
    pending,        \* plan.apply: outcomes not executed yet
    applied,        \* plan.apply: the State being accumulated
    failures,       \* plan.apply: resources whose operation failed
    state_applied,  \* value returned by plan.apply
    pushed,         \* State value handed to push
    calls,          \* calls made by this run, in order
    provider_ops,   \* ResourceProvider create/update/delete calls of this run
    output,         \* messages printed by this run
    answer,         \* answer to the confirmation: "none", "yes", "no"
    raised,         \* exception that ended the run, "none" otherwise
    exit_code       \* -1 while running, else the process exit status

persistent == <<config_dir, stored, backend, runs, prev_clean, start>>
locals == <<config, stencils, idx, resources, state_desired, state_current,
            state_diff, changes, state_applied, pushed>>
orchestrator == <<pending, applied, failures>>
vars == <<config_dir, stored, backend, runs, prev_clean, start, answer, cmd,
          auto_approve, pc,
          config, stencils, idx, resources, state_desired, state_current,
          state_diff, changes, pending, applied, failures, state_applied,
          pushed, calls, provider_ops, output, raised, exit_code>>

\* ------------------------------------------------------------- core, pure
\* dict.update: keys of e overwrite keys of d.
DictUpdate(d, e) ==
    [i \in (DOMAIN d) \cup (DOMAIN e) |-> IF i \in DOMAIN e THEN e[i] ELSE d[i]]

\* StateDiff(current, desired): one Outcome per id of the union.
StateDiff(current, desired) ==
    [i \in (DOMAIN current) \cup (DOMAIN desired) |->
        IF i \notin DOMAIN current THEN "Create"
        ELSE IF i \notin DOMAIN desired THEN "Delete"
        ELSE IF current[i] # desired[i] THEN "Update"
        ELSE "NoOp"]

\* outcomes(providers) rejects a resource whose provider is not configured.
OutcomesInvalid(diff, providers) ==
    \E i \in DOMAIN diff : ProviderOf(i) \notin providers

\* outcomes(providers): the outcomes that are changes.
Outcomes(diff) == {i \in DOMAIN diff : diff[i] # "NoOp"}

\* load(config.state, providers): merge of the configured providers' blobs.
LoadMerge(providers) ==
    [i \in UNION {DOMAIN stored[p] : p \in providers} |-> stored[ProviderOf(i)][i]]

\* resolve rejects a resource that declares an unknown provider name.
ResolveInvalid(d, providers) ==
    \E i \in DOMAIN d : ProviderOf(i) \notin providers

\* ------------------------------------------------------------------- init
Init ==
    /\ config_dir \in ConfigDirs
    /\ stored = [p \in Providers |-> EmptyDict]
    /\ backend = EmptyDict
    /\ runs = 0
    /\ prev_clean = FALSE
    /\ start = [stored |-> [p \in Providers |-> EmptyDict], backend |-> EmptyDict]
    /\ answer = "none"
    /\ cmd = "none"
    /\ auto_approve = FALSE
    /\ pc = "idle"
    /\ config = {}
    /\ stencils = <<>>
    /\ idx = 1
    /\ resources = EmptyDict
    /\ state_desired = EmptyDict
    /\ state_current = EmptyDict
    /\ state_diff = EmptyDict
    /\ changes = 0
    /\ pending = {}
    /\ applied = EmptyDict
    /\ failures = {}
    /\ state_applied = EmptyDict
    /\ pushed = EmptyDict
    /\ calls = <<>>
    /\ provider_ops = 0
    /\ output = {}
    /\ raised = "none"
    /\ exit_code = -1

\* ------------------------------------------------------------ the commands
\* except gdbt.errors.Error: print the message, SystemExit(1).
Fail(err) ==
    /\ pc' = "done"
    /\ raised' = err
    /\ output' = output \cup {"ERROR"}
    /\ exit_code' = 1

Continue(next) ==
    /\ pc' = next
    /\ UNCHANGED <<raised, output, exit_code>>

\* The user runs `gdbt plan` or `gdbt apply [-y]` on a configuration
\* directory, possibly edited since the previous run.
Invoke ==
    /\ pc = "idle"
    /\ runs < MaxRuns
    /\ \E c \in {"plan", "apply"}, y \in BOOLEAN, dir \in ConfigDirs :
        /\ c = "plan" => ~y
        /\ cmd' = c
        /\ auto_approve' = y
        /\ config_dir' = dir
        /\ prev_clean' = (prev_clean /\ dir = config_dir)
    /\ runs' = runs + 1
    /\ pc' = "load_config"
    /\ UNCHANGED <<stored, backend, start, answer, locals, orchestrator, calls,
                   provider_ops, output, raised, exit_code>>

\* The process exits: what the command held in memory is gone, the stored
\* state and the backends stay.
Exit ==
    /\ pc = "done"
    /\ pc' = "idle"
    /\ prev_clean' =
          \/ cmd = "apply" /\ "done" \in output /\ failures = {}
          \/ prev_clean /\ provider_ops = 0
                        /\ \A k \in 1..Len(calls) : calls[k] # "push"
    /\ start' = [stored |-> stored, backend |-> backend]
    /\ answer' = "none"
    /\ cmd' = "none"
    /\ auto_approve' = FALSE
    /\ config' = {}
    /\ stencils' = <<>>
    /\ idx' = 1
    /\ resources' = EmptyDict
    /\ state_desired' = EmptyDict
    /\ state_current' = EmptyDict
    /\ state_diff' = EmptyDict
    /\ changes' = 0
    /\ pending' = {}
    /\ applied' = EmptyDict
    /\ failures' = {}
    /\ state_applied' = EmptyDict
    /\ pushed' = EmptyDict
    /\ calls' = <<>>
    /\ provider_ops' = 0
    /\ output' = {}
    /\ raised' = "none"
    /\ exit_code' = -1
    /\ UNCHANGED <<config_dir, stored, backend, runs>>

\* config = load_config(config_dir)
LoadConfig ==
    /\ pc = "load_config"
    /\ calls' = Append(calls, "load_config")
    /\ \E ok \in BOOLEAN :
        IF ok
        THEN /\ config' = config_dir.providers
             /\ Continue("load_resources")
        ELSE /\ config' = config
             /\ Fail("ConfigError")
    /\ UNCHANGED <<persistent, cmd, auto_approve, stencils, idx, resources,
                   state_desired, state_current, state_diff, changes,
                   orchestrator, state_applied, pushed, provider_ops, answer>>

\* stencils = load_resources(config_dir)
LoadResources ==
    /\ pc = "load_resources"
    /\ calls' = Append(calls, "load_resources")
    /\ \E ok \in BOOLEAN :
        IF ok
        THEN /\ stencils' = StencilKeys
             /\ Continue("resolve")
        ELSE /\ stencils' = stencils
             /\ Fail("ConfigError")
    /\ idx' = 1
    /\ resources' = EmptyDict
    /\ UNCHANGED <<persistent, cmd, auto_approve, config, state_desired,
                   state_current, state_diff, changes, orchestrator,
                   state_applied, pushed, provider_ops, answer>>

\* One iteration of the loop over stencils.items(): value.resolve(...), then
\* resources.update(stencil_resources).  lookup_ok: every lookup and
\* evaluation key the stencil references is defined.
Resolve ==
    /\ pc = "resolve"
    /\ idx <= Len(stencils)
    /\ calls' = Append(calls, "resolve")
    /\ LET stencil_resources == config_dir.stencils[stencils[idx]] IN
       \E lookup_ok \in BOOLEAN :
        IF lookup_ok /\ ~ResolveInvalid(stencil_resources, config)
        THEN /\ resources' = DictUpdate(resources, stencil_resources)
             /\ idx' = idx + 1
             /\ Continue("resolve")
        ELSE /\ UNCHANGED <<resources, idx>>
             /\ Fail("ResolutionError")
    /\ UNCHANGED <<persistent, cmd, auto_approve, config, stencils,
                   state_desired, state_current, state_diff, changes,
                   orchestrator, state_applied, pushed, provider_ops, answer>>

\* state_desired = State(resources): the keys of a dict are unique, so the
\* duplicate check of State has nothing to reject.
BuildDesired ==
    /\ pc = "resolve"
    /\ idx > Len(stencils)
    /\ calls' = Append(calls, "State")
    /\ state_desired' = resources
    /\ Continue("load_state")
    /\ UNCHANGED <<persistent, cmd, auto_approve, config, stencils, idx,
                   resources, state_current, state_diff, changes, orchestrator,
                   state_applied, pushed, provider_ops, answer>>

\* state_current = load(config.state, config.providers)
LoadState ==
    /\ pc = "load_state"
    /\ calls' = Append(calls, "load")
    /\ \E readable \in BOOLEAN :
        IF readable
        THEN /\ state_current' = LoadMerge(config)
             /\ Continue("diff")
        ELSE /\ state_current' = state_current
             /\ Fail("StateError")
    /\ UNCHANGED <<persistent, cmd, auto_approve, config, stencils, idx,
                   resources, state_desired, state_diff, changes, orchestrator,
                   state_applied, pushed, provider_ops, answer>>

\* state_diff = StateDiff(state_current, state_desired)
CalcDiff ==
    /\ pc = "diff"
    /\ calls' = Append(calls, "StateDiff")
    /\ state_diff' = StateDiff(state_current, state_desired)
    /\ Continue("count")
    /\ UNCHANGED <<persistent, cmd, auto_approve, config, stencils, idx,
                   resources, state_desired, state_current, changes,
                   orchestrator, state_applied, pushed, provider_ops, answer>>

\* changes = len(state_diff.outcomes(config.providers).values());
\* if changes == 0: print "Dashboards are up to date!" and return.
\* counted: the outcomes that are counted; early_return: the return at zero.
CountStep(counted, early_return) ==
    /\ pc = "count"
    /\ calls' = Append(calls, "outcomes")
    /\ IF OutcomesInvalid(state_diff, config)
       THEN /\ changes' = changes
            /\ Fail("ConfigError")
       ELSE /\ changes' = Cardinality(counted)
            /\ raised' = raised
            /\ IF changes' = 0 /\ early_return
               THEN /\ output' = output \cup {"up_to_date"}
                    /\ pc' = "done"
                    /\ exit_code' = 0
               ELSE /\ output' = output
                    /\ pc' = "report"
                    /\ exit_code' = exit_code
    /\ UNCHANGED <<persistent, cmd, auto_approve, config, stencils, idx,
                   resources, state_desired, state_current, state_diff,
                   orchestrator, state_applied, pushed, provider_ops, answer>>

\* Counting every entry of the diff, NoOp included.
Count_CountsAll == CountStep(DOMAIN state_diff, TRUE)

\* The early return at zero changes left out.
Count_NoEarlyReturn == CountStep(Outcomes(state_diff), FALSE)

Count == CountStep(Outcomes(state_diff), TRUE)

\* plan: print "Planned changes:", the rendering and the hint; return.
\* next: where the command goes after the report.
PlanReportStep(next) ==
    /\ pc = "report"
    /\ cmd = "plan"
    /\ calls' = Append(calls, "render")
    /\ output' = output \cup {"planned_changes"}
    /\ pc' = next
    /\ exit_code' = IF next = "done" THEN 0 ELSE exit_code
    /\ UNCHANGED <<persistent, cmd, auto_approve, locals, orchestrator,
                   provider_ops, answer, raised>>

\* plan running on into the confirmation and apply of the apply command.
PlanReport_FallsThrough == PlanReportStep("confirm")

PlanReport == PlanReportStep("done")

\* apply: print "Pending changes:" and the rendering.
ApplyReport ==
    /\ pc = "report"
    /\ cmd = "apply"
    /\ calls' = Append(calls, "render")
    /\ output' = output \cup {"pending_changes"}
    /\ pc' = "confirm"
    /\ UNCHANGED <<persistent, cmd, auto_approve, locals, orchestrator,
                   provider_ops, answer, raised, exit_code>>

\* if not auto_approve: click.confirm("Apply?", abort=True).  A negative
\* answer raises click.Abort, which is no gdbt.errors.Error: click prints
\* "Aborted!" and exits with status 1.  skip: the prompt is not issued;
\* abort: a negative answer raises.
ConfirmStep(skip, abort) ==
    /\ pc = "confirm"
    /\ IF skip
       THEN /\ calls' = calls
            /\ answer' = answer
            /\ Continue("plan_apply")
       ELSE /\ calls' = Append(calls, "confirm")
            /\ \E reply \in {"yes", "no"} :
                /\ answer' = reply
                /\ IF reply = "no" /\ abort
                   THEN /\ pc' = "done"
                        /\ raised' = "Abort"
                        /\ output' = output \cup {"Aborted"}
                        /\ exit_code' = 1
                   ELSE Continue("plan_apply")
    /\ UNCHANGED <<persistent, cmd, auto_approve, locals, orchestrator,
                   provider_ops>>

\* A confirm without abort=True: a negative answer is ignored.
Confirm_NoAbort == ConfirmStep(auto_approve, FALSE)

\* The flag read the wrong way round: prompts exactly when told not to.
Confirm_Inverted == ConfirmStep(~auto_approve, TRUE)

Confirm == ConfirmStep(auto_approve, TRUE)

\* plan = Plan(state_diff); plan.apply(config.providers) is entered.  Plan
\* captures the outcomes to execute; the applied State starts from the
\* current entries (NoOp resources are carried over unchanged).
PlanApplyStart ==
    /\ pc = "plan_apply"
    /\ calls' = calls \o <<"Plan", "plan.apply">>
    /\ pending' = Outcomes(state_diff)
    /\ applied' = state_current
    /\ failures' = {}
    /\ Continue("applying")
    /\ UNCHANGED <<persistent, cmd, auto_approve, locals, provider_ops, answer>>

\* The applied State after a successful operation on resource i.
ApplyOutcome(st, i) ==
    IF state_diff[i] = "Delete"
    THEN Restrict(st, (DOMAIN st) \ {i})
    ELSE DictUpdate(st, Restrict(state_desired, {i}))

\* plan.apply executes one pending outcome through the resource's provider:
\* create / update / delete.  Deletes run after creates and updates.  A
\* ProviderError marks the resource Failed and the pass goes on.
ApplyOp ==
    /\ pc = "applying"
    /\ \E i \in pending, ok \in BOOLEAN :
        /\ state_diff[i] = "Delete" =>
               \A j \in pending : state_diff[j] = "Delete"
        /\ pending' = pending \ {i}
        /\ IF ok
           THEN /\ backend' = ApplyOutcome(backend, i)
                /\ applied' = ApplyOutcome(applied, i)
                /\ failures' = failures
           ELSE /\ UNCHANGED <<backend, applied>>
                /\ failures' = failures \cup {i}
    /\ provider_ops' = provider_ops + 1
    /\ Continue("applying")
    /\ UNCHANGED <<config_dir, stored, runs, prev_clean, start, cmd,
                   auto_approve, locals, calls, answer>>

\* state_applied = plan.apply(config.providers) returns the applied State.
PlanApplyReturn ==
    /\ pc = "applying"
    /\ pending = {}
    /\ calls' = Append(calls, "plan.apply returned")
    /\ state_applied' = applied
    /\ Continue("push")
    /\ UNCHANGED <<persistent, cmd, auto_approve, config, stencils, idx,
                   resources, state_desired, state_current, state_diff,
                   changes, pushed, orchestrator, provider_ops, answer>>

\* push(config.state, config.providers, state_applied), then
\* "Done! Modified {changes} resources".  push hands every provider the
\* resources it owns; written: the providers reached before one of them
\* failed.  st: the State handed to push.
PushStep(st) ==
    /\ pc = "push"
    /\ calls' = Append(calls, "push")
    /\ pushed' = st
    /\ \E written \in SUBSET config :
        /\ stored' = [p \in Providers |->
                         IF p \in written
                         THEN Restrict(st, OwnedBy(p))
                         ELSE stored[p]]
        /\ IF written = config
           THEN /\ output' = output \cup {"done"}
                /\ pc' = "done"
                /\ exit_code' = 0
                /\ raised' = raised
           ELSE Fail("ProviderError")
    /\ UNCHANGED <<config_dir, backend, runs, prev_clean, start, cmd,
                   auto_approve, config, stencils, idx, resources,
                   state_desired, state_current, state_diff, changes,
                   state_applied, orchestrator, provider_ops, answer>>

\* Pushing the desired State instead of what plan.apply returned.
Push_PushDesired == PushStep(state_desired)

\* Pushing the State that was loaded instead of what plan.apply returned.
Push_PushCurrent == PushStep(state_current)

Push == PushStep(state_applied)

Next ==
    \/ Invoke
    \/ Exit
    \/ LoadConfig
    \/ LoadResources
    \/ Resolve
    \/ BuildDesired
    \/ LoadState
    \/ CalcDiff
    \/ Count
    \/ PlanReport
    \/ ApplyReport
    \/ Confirm
    \/ PlanApplyStart
    \/ ApplyOp
    \/ PlanApplyReturn
    \/ Push

Spec == Init /\ [][Next]_vars

\* ----------------------------------------------------------------- claims
Called(c) == \E k \in 1..Len(calls) : calls[k] = c

Times(c) == Cardinality({k \in 1..Len(calls) : calls[k] = c})

\* c was called, and every call of d came later.
Before(c, d) ==
    /\ Called(c)
    /\ \A k \in 1..Len(calls) : calls[k] = d =>
           \E m \in 1..(k - 1) : calls[m] = c

Untouched == stored = start.stored /\ backend = start.backend

PreApplyErrors == {"ConfigError", "ResolutionError", "StateError"}

\* What the run has applied: NoOp resources and resources whose operation
\* failed keep the current entry, a successful Create or Update holds the
\* desired resource, a successful Delete holds nothing.
SucceededState ==
    LET kept(i) == state_diff[i] = "NoOp" \/ i \in failures
        ids == {i \in DOMAIN state_diff :
                   IF kept(i) THEN i \in DOMAIN state_current
                   ELSE state_diff[i] # "Delete"}
    IN [i \in ids |-> IF kept(i) THEN state_current[i] ELSE state_desired[i]]

\* C1: in the apply command, an error raised before apply or a declined
\* confirmation ends the run with a nonzero exit, and neither plan.apply nor
\* push was called: nothing stored or in the backends has changed.
C1_PreApplyAbortsWithoutMutation ==
    (cmd = "apply" /\ (raised \in PreApplyErrors \/ answer = "no")) =>
        /\ pc = "done"
        /\ exit_code = 1
        /\ ~Called("plan.apply")
        /\ ~Called("push")
        /\ provider_ops = 0
        /\ Untouched

C1_Witness ==
    /\ cmd = "apply"
    /\ answer = "no"
    /\ pc = "done"
    /\ start.stored # [p \in Providers |-> EmptyDict]

\* C2: every apply run that started plan.apply has called push by the time
\* it exits, with the State of the resources that did succeed, also when
\* operations failed.
C2_PartialApplyPersisted ==
    (cmd = "apply" /\ Called("plan.apply") /\ pc = "done") =>
        /\ Called("push")
        /\ pushed = SucceededState

C2_Witness ==
    /\ cmd = "apply"
    /\ pc = "done"
    /\ Called("push")
    /\ failures # {}
    /\ failures # Outcomes(state_diff)
    /\ pushed # state_desired

\* C3: an apply run in which an operation failed exits nonzero and does
\* not print "Done! Modified ...".
C3_FailureExitsNonzero ==
    (cmd = "apply" /\ pc = "done" /\ failures # {}) =>
        /\ exit_code = 1
        /\ "done" \notin output

\* C4: without auto-approve, Plan, plan.apply and push happen only after a
\* positive answer to the one confirmation, which comes after the diff is
\* computed and rendered and before Plan; with auto-approve there is no
\* prompt.
C4_ConfirmationGatesApply ==
    /\ Times("confirm") <= 1
    /\ auto_approve => ~Called("confirm")
    /\ Called("confirm") =>
           /\ cmd = "apply"
           /\ Before("StateDiff", "confirm")
           /\ Before("outcomes", "confirm")
           /\ Before("render", "confirm")
           /\ changes >= 1
    /\ (cmd = "apply" /\ ~auto_approve
            /\ (Called("Plan") \/ Called("plan.apply") \/ Called("push"))) =>
           /\ answer = "yes"
           /\ Before("confirm", "Plan")
           /\ Before("confirm", "plan.apply")
           /\ Before("confirm", "push")

C4_Witness ==
    /\ cmd = "apply"
    /\ ~auto_approve
    /\ answer = "yes"
    /\ Called("push")
    /\ pc = "done"

C6_PlanIsReadOnly ==
    cmd = "plan" =>
        /\ ~Called("Plan")
        /\ ~Called("plan.apply")
        /\ ~Called("push")
        /\ ~Called("confirm")
        /\ provider_ops = 0
        /\ Untouched
        /\ pc = "done" => exit_code = (IF raised = "none" THEN 0 ELSE 1)

C6_Witness ==
    /\ cmd = "plan"
    /\ pc = "done"
    /\ "planned_changes" \in output
    /\ exit_code = 0
    /\ \E i \in DOMAIN state_diff : state_diff[i] = "Delete"

\* C7: when the current and the desired State are equal, the number of
\* changes is zero and the command reports that dashboards are up to date.
C7_EqualStatesZeroChanges ==
    (Called("outcomes") /\ state_current = state_desired) =>
        /\ changes = 0
        /\ "up_to_date" \in output
        /\ pc = "done"
        /\ exit_code = 0

C7_Witness ==
    /\ Called("outcomes")
    /\ state_current = state_desired
    /\ state_current # EmptyDict
    /\ \E i \in DOMAIN state_diff : state_diff[i] = "NoOp"

\* C8: after an apply run in which every operation succeeded and the state
\* was pushed, a run on the unchanged configuration directory loads a State
\* whose diff against the desired State is all NoOp: zero changes, no
\* operation, no push.
C8_ApplyIsIdempotent ==
    prev_clean =>
        /\ Called("StateDiff") => \A i \in DOMAIN state_diff : state_diff[i] = "NoOp"
        /\ Called("outcomes") =>
               /\ raised = "none"
               /\ changes = 0
               /\ "up_to_date" \in output
        /\ ~Called("plan.apply")
        /\ ~Called("push")
        /\ provider_ops = 0
        /\ Untouched

C8_Witness ==
    /\ prev_clean
    /\ Called("outcomes")
    /\ pc = "done"
    /\ state_desired # EmptyDict
    /\ state_current = backend

\* C9: the count in "Done! Modified N resources" is the number of
\* resources whose operation succeeded in this run.
C9_ReportedCountIsApplied ==
    "done" \in output =>
        changes = Cardinality(Outcomes(state_diff) \ failures)

\* C10: push is called at most once, after plan.apply returned, with the
\* State plan.apply returned; with zero changes the command returns
\* without prompt, plan.apply or push and the stored state is untouched.
C10_PushOnceWithAppliedState ==
    /\ Times("push") <= 1
    /\ Called("push") =>
           /\ Before("plan.apply returned", "push")
           /\ pushed = state_applied
           /\ state_applied = applied
    /\ (cmd = "apply" /\ Called("outcomes") /\ raised = "none" /\ changes = 0) =>
           /\ pc = "done"
           /\ exit_code = 0
           /\ ~Called("confirm")
           /\ ~Called("plan.apply")
           /\ ~Called("push")
           /\ Untouched

C10_Witness ==
    /\ cmd = "apply"
    /\ Called("outcomes")
    /\ raised = "none"
    /\ changes = 0
    /\ pc = "done"
    /\ stored["p1"] # EmptyDict
====
